---- MODULE Spec2Model ----
(***************************************************************************)
(* Verified-images admin page of manggo-admin: the folder hierarchy built  *)
(* by VerifiedImagesComponent, the FilterService pipeline and the          *)
(* ButtonsService selection operations.                                    *)
(*                                                                         *)
(* Conventions                                                             *)
(*  - a JavaScript string is a sequence of one-character strings;          *)
(*  - a timestamp (uploaded_at, new Date()) is a day number;               *)
(*  - confidence_score is a fixed-point number in hundredths, so 0.92 is   *)
(*    92 and 38 is 3800; getConfidenceScore returns hundredths as well;    *)
(*  - a JavaScript Set<number> is a duplicate-free sequence in insertion   *)
(*    order.                                                               *)
(***************************************************************************)
EXTENDS Integers, Sequences, FiniteSets, Bags, TLC

(***************************************************************************)
(* Bounds of the model.                                                    *)
(***************************************************************************)
NumImages == 3

MaxInflight == 1

MaxFolderLen == 2

\* Bulk actions the user confirms in one session.
MaxBulk == 2

\* Records the backend holds in the sessions with bulk actions.
BulkImages == 2

\* Archive exports the user starts in one session.
MaxExports == 1

(***************************************************************************)
(* Sequence helpers.                                                       *)
(***************************************************************************)
Range(s) == {s[i] : i \in 1..Len(s)}

RECURSIVE SumSeq(_)
SumSeq(s) == IF s = <<>> THEN 0 ELSE Head(s) + SumSeq(Tail(s))

RECURSIVE Flatten(_)
Flatten(ss) == IF ss = <<>> THEN <<>> ELSE Head(ss) \o Flatten(Tail(ss))

(***************************************************************************)
(* Strings.                                                                *)
(***************************************************************************)
LowerChar(c) ==
  CASE c = "A" -> "a" [] c = "F" -> "f" [] c = "L" -> "l" [] c = "R" -> "r"
    [] c = "U" -> "u" [] c = "W" -> "w" [] OTHER -> c

UpperChar(c) ==
  CASE c = "a" -> "A" [] c = "f" -> "F" [] c = "l" -> "L" [] c = "r" -> "R"
    [] c = "u" -> "U" [] c = "w" -> "W" [] OTHER -> c

toLowerCase(s) == [i \in 1..Len(s) |-> LowerChar(s[i])]

\* String.prototype.includes: t occurs in s as a contiguous substring.
includes(s, t) ==
  \E k \in 0..(Len(s) - Len(t)) : SubSeq(s, k + 1, k + Len(t)) = t

\* Collation order of the characters that occur: space and punctuation
\* before letters, letters alphabetically.
Collation ==
  <<" ", "_", "(", ")", "a", "c", "e", "f", "h", "i", "k", "l", "n", "o",
    "r", "s", "t", "u", "w">>

CharRank(c) == CHOOSE i \in 1..Len(Collation) : Collation[i] = LowerChar(c)

\* 0 for a lower-case character, 1 for an upper-case one.
CaseRank(c) == IF c = LowerChar(c) THEN 0 ELSE 1

RECURSIVE LexCmp(_, _)
LexCmp(a, b) ==
  IF a = <<>> THEN (IF b = <<>> THEN 0 ELSE -1)
  ELSE IF b = <<>> THEN 1
  ELSE IF Head(a) < Head(b) THEN -1
  ELSE IF Head(a) > Head(b) THEN 1
  ELSE LexCmp(Tail(a), Tail(b))

\* String.prototype.localeCompare: letters first compared ignoring case,
\* then lower case before upper case.
localeCompare(a, b) ==
  LET p == LexCmp([i \in 1..Len(a) |-> CharRank(a[i])],
                  [i \in 1..Len(b) |-> CharRank(b[i])])
  IN IF p # 0 THEN p
     ELSE LexCmp([i \in 1..Len(a) |-> CaseRank(a[i])],
                 [i \in 1..Len(b) |-> CaseRank(b[i])])

\* The text of a 'leaf' | 'fruit' | 'unknown' value.
TypeText(t) ==
  CASE t = "leaf" -> <<"l", "e", "a", "f">>
    [] t = "fruit" -> <<"f", "r", "u", "i", "t">>
    [] OTHER -> <<"u", "n", "k", "n", "o", "w", "n">>

Rot == <<"R", "o", "t">>

Wilt == <<"W", "i", "l", "t">>

Anthracnose == <<"A", "n", "t", "h", "r", "a", "c", "n", "o", "s", "e">>

NoText == <<>>

Unknown == <<"U", "n", "k", "n", "o", "w", "n">>

(***************************************************************************)
(* Time. new Date() is the same day throughout a session; setMonth(month   *)
(* - 1) and setFullYear(year - 1) move the cutoff back by the length of a  *)
(* month and of a year, taken as 30 and 365 days.                          *)
(***************************************************************************)
Now == 1000

DaysInWeek == 7

DaysInMonth == 30

DaysInYear == 365

\* cutoffDate of applyDateFilter and groupImagesByDisease.
cutoffDate(dateRange) ==
  CASE dateRange = "week" -> Now - DaysInWeek
    [] dateRange = "month" -> Now - DaysInMonth
    [] dateRange = "year" -> Now - DaysInYear
    [] OTHER -> Now

(***************************************************************************)
(* The backend's records.                                                  *)
(***************************************************************************)
Catalog ==
  << [predicted_class |-> Rot, confidence_score |-> 92,
      disease_type |-> "fruit", model_used |-> "none",
      is_verified |-> TRUE, uploaded_at |-> Now - 3],
     [predicted_class |-> Wilt, confidence_score |-> 8700,
      disease_type |-> "none", model_used |-> "leaf",
      is_verified |-> FALSE, uploaded_at |-> Now - 10],
     [predicted_class |-> Rot, confidence_score |-> 3800,
      disease_type |-> "fruit", model_used |-> "fruit",
      is_verified |-> TRUE, uploaded_at |-> Now - 10],
     [predicted_class |-> Wilt, confidence_score |-> 50,
      disease_type |-> "leaf", model_used |-> "none",
      is_verified |-> FALSE, uploaded_at |-> Now - 3],
     [predicted_class |-> NoText, confidence_score |-> 0,
      disease_type |-> "unknown", model_used |-> "none",
      is_verified |-> FALSE, uploaded_at |-> Now - 400],
     [predicted_class |-> Rot, confidence_score |-> 100,
      disease_type |-> "leaf", model_used |-> "leaf",
      is_verified |-> TRUE, uploaded_at |-> Now - 40] >>

WithId(r, n) ==
  [id |-> n, predicted_class |-> r.predicted_class,
   confidence_score |-> r.confidence_score, disease_type |-> r.disease_type,
   model_used |-> r.model_used, is_verified |-> r.is_verified,
   uploaded_at |-> r.uploaded_at]

\* The collections the backend may hold: NumImages catalog records, in
\* catalog order, numbered 1..NumImages.
Datasets ==
  LET picks == {p \in [1..NumImages -> 1..Len(Catalog)] :
                  \A i \in 1..(NumImages - 1) : p[i] < p[i + 1]}
  IN {[i \in 1..NumImages |-> WithId(Catalog[p[i]], i)] : p \in picks}

(***************************************************************************)
(* MangoDiseaseService.getClassifiedImages: the transformed records of a   *)
(* successful response, and an empty list when the request fails           *)
(* (catchError).                                                           *)
(***************************************************************************)
transformedImage(image) ==
  [image EXCEPT !.disease_type =
     IF image.disease_type = "none" THEN "unknown" ELSE image.disease_type]

getClassifiedImages(stored, ok) ==
  IF ok THEN [i \in 1..Len(stored) |-> transformedImage(stored[i])] ELSE <<>>

(***************************************************************************)
(* Classification.                                                         *)
(***************************************************************************)
UNKNOWN_CONFIDENCE_THRESHOLD == 50

\* A mutant of getConfidenceScore: the score is returned as it is stored.
getConfidenceScoreNoScale(image) == image.confidence_score

\* Hundredths of a percent; confidence_score <= 1 is 100 hundredths.
getConfidenceScore(image) ==
  IF image.confidence_score # 0
  THEN IF image.confidence_score <= 100
       THEN image.confidence_score * 100
       ELSE image.confidence_score
  ELSE 0

getDiseaseType(image) ==
  IF image.disease_type # "none" /\ image.disease_type # "unknown"
  THEN image.disease_type
  ELSE IF image.model_used # "none" THEN image.model_used
  ELSE "unknown"

\* leafDiseases of UserManagementComponent.getDiseaseType.
leafDiseases ==
  {<<"d", "i", "e", " ", "b", "a", "c", "k">>,
   <<"d", "i", "e", "b", "a", "c", "k">>,
   <<"a", "n", "t", "h", "r", "a", "c", "n", "o", "s", "e">>,
   <<"p", "o", "w", "d", "e", "r", "y", " ", "m", "i", "l", "d", "e", "w">>,
   <<"b", "a", "c", "t", "e", "r", "i", "a", "l", " ", "c", "a", "n", "k", "e", "r">>,
   <<"s", "o", "o", "t", "y", " ", "m", "o", "l", "d">>,
   <<"s", "o", "o", "t", "y", " ", "m", "o", "u", "l", "d">>,
   <<"c", "u", "t", "t", "i", "n", "g", " ", "w", "e", "e", "v", "i", "l">>,
   <<"g", "a", "l", "l", " ", "m", "i", "d", "g", "e">>}

\* The category loadAllImages pushes the image to: a mutant that looks at
\* the verified flag first.
categoryOfVerifiedFirst(image) ==
  IF image.is_verified = TRUE THEN "verified"
  ELSE IF getConfidenceScore(image) < UNKNOWN_CONFIDENCE_THRESHOLD * 100
  THEN "unknown"
  ELSE "unverified"

\* The category loadAllImages pushes the image to (Step 7).
categoryOf(image) ==
  IF getConfidenceScore(image) < UNKNOWN_CONFIDENCE_THRESHOLD * 100
  THEN "unknown"
  ELSE IF image.is_verified = TRUE THEN "verified"
  ELSE "unverified"

imagesOfCategory(allImages, cat) ==
  SelectSeq(allImages, LAMBDA image : categoryOf(image) = cat)

(***************************************************************************)
(* Array.prototype.sort with the comparators of the page: a stable sort,   *)
(* as an insertion sort that puts x before the first element it strictly   *)
(* precedes.                                                               *)
(***************************************************************************)
\* (a, b) => new Date(b.uploaded_at).getTime() - new Date(a.uploaded_at).getTime()
imageCmp(a, b) == b.uploaded_at - a.uploaded_at

RECURSIVE insertImage(_, _)
insertImage(x, s) ==
  IF s = <<>> THEN <<x>>
  ELSE IF imageCmp(x, Head(s)) < 0 THEN <<x>> \o s
  ELSE <<Head(s)>> \o insertImage(x, Tail(s))

RECURSIVE sortImages(_)
sortImages(s) ==
  IF s = <<>> THEN <<>>
  ELSE insertImage(s[Len(s)], sortImages(SubSeq(s, 1, Len(s) - 1)))

\* The comparator of the three sort keys; a NaN difference (a folder
\* without images under 'date') counts as 0.
folderCmp(sortBy, a, b) ==
  CASE sortBy = "count" -> b.count - a.count
    [] sortBy = "disease" -> localeCompare(a.disease, b.disease)
    [] sortBy = "date" ->
         IF a.images = <<>> \/ b.images = <<>> THEN 0
         ELSE b.images[1].uploaded_at - a.images[1].uploaded_at
    [] OTHER -> 0

RECURSIVE insertFolder(_, _, _)
insertFolder(sortBy, x, s) ==
  IF s = <<>> THEN <<x>>
  ELSE IF folderCmp(sortBy, x, Head(s)) < 0 THEN <<x>> \o s
  ELSE <<Head(s)>> \o insertFolder(sortBy, x, Tail(s))

RECURSIVE sortFolderList(_, _)
sortFolderList(sortBy, s) ==
  IF s = <<>> THEN <<>>
  ELSE insertFolder(sortBy, s[Len(s)],
                    sortFolderList(sortBy, SubSeq(s, 1, Len(s) - 1)))

(***************************************************************************)
(* Folder Hierarchy Builder (VerifiedImagesComponent).                     *)
(***************************************************************************)
diseaseOf(image) ==
  IF image.predicted_class # NoText THEN image.predicted_class ELSE Unknown

\* `${disease}_${diseaseType}`
folderKey(image) ==
  diseaseOf(image) \o <<"_">> \o TypeText(getDiseaseType(image))

\* `${disease} (${Type})` when the type is known, else the disease.
displayName(image) ==
  LET t == TypeText(getDiseaseType(image))
  IN IF getDiseaseType(image) # "unknown"
     THEN diseaseOf(image) \o <<" ", "(">> \o <<UpperChar(Head(t))>>
            \o Tail(t) \o <<")">>
     ELSE diseaseOf(image)

\* The keys of diseaseMap in insertion order.
RECURSIVE mapKeys(_)
mapKeys(images) ==
  IF images = <<>> THEN <<>>
  ELSE LET init == SubSeq(images, 1, Len(images) - 1)
           k == folderKey(images[Len(images)])
       IN IF k \in Range(mapKeys(init)) THEN mapKeys(init)
          ELSE Append(mapKeys(init), k)

dateFiltered(images, dateRange) ==
  IF dateRange # "all"
  THEN SelectSeq(images, LAMBDA img : img.uploaded_at >= cutoffDate(dateRange))
  ELSE images

\* A mutant of makeFolder: the count is taken before the folder's images
\* are known (one per folder).
makeFolderCountOne(imgs, verificationStatus) ==
  [disease |-> displayName(imgs[1]),
   count |-> 1,
   images |-> sortImages(imgs),
   diseaseType |-> getDiseaseType(imgs[1]),
   verificationStatus |-> verificationStatus]

\* The folder object built from one entry of diseaseMap.
makeFolder(imgs, verificationStatus) ==
  [disease |-> displayName(imgs[1]),
   count |-> Len(imgs),
   images |-> sortImages(imgs),
   diseaseType |-> getDiseaseType(imgs[1]),
   verificationStatus |-> verificationStatus]

groupImagesByDisease(images, verificationStatus, dateRange, sortBy) ==
  LET filteredImages == dateFiltered(images, dateRange)
      keys == mapKeys(filteredImages)
      folders ==
        [i \in 1..Len(keys) |->
           makeFolder(SelectSeq(filteredImages,
                                LAMBDA img : folderKey(img) = keys[i]),
                      verificationStatus)]
  IN sortFolderList(sortBy, folders)

MainTypes == <<"all", "verified", "unverified", "unknown">>

createMainFolders(allImages, dateRange, sortBy) ==
  [i \in 1..Len(MainTypes) |->
     LET images == IF MainTypes[i] = "all" THEN allImages
                   ELSE imagesOfCategory(allImages, MainTypes[i])
         subs == groupImagesByDisease(images, MainTypes[i], dateRange, sortBy)
     IN [type |-> MainTypes[i],
         count |-> Len(images),
         expanded |-> FALSE,
         subFolders |-> subs,
         originalSubFolders |-> subs]]

\* sortFolders: every main folder's subFolders sorted in place.
sortFolders(folders, sortBy) ==
  [i \in 1..Len(folders) |->
     [folders[i] EXCEPT !.subFolders = sortFolderList(sortBy, @)]]

(***************************************************************************)
(* FilterService.                                                          *)
(***************************************************************************)
\* A mutant of applyDateFilter: the emptied folders are kept.
applyDateFilterKeepEmpty(folders, dateRange) ==
  IF dateRange = "all" THEN folders
  ELSE [i \in 1..Len(folders) |->
          [folders[i] EXCEPT !.images = <<>>, !.count = 0]]

\* The callback of images.filter has a block body without a return
\* statement, so it yields undefined for every image and no image is kept.
applyDateFilter(folders, dateRange) ==
  IF dateRange = "all" THEN folders
  ELSE LET keep(image) == FALSE
           mapped == [i \in 1..Len(folders) |->
                        LET filteredImages ==
                              SelectSeq(folders[i].images, keep)
                        IN [folders[i] EXCEPT !.images = filteredImages,
                                              !.count = Len(filteredImages)]]
       IN SelectSeq(mapped, LAMBDA folder : Len(folder.images) > 0)

filterSubFolders(subFolders, filterType, searchTerm, dateRange) ==
  LET byType == IF filterType # "all"
                THEN SelectSeq(subFolders,
                               LAMBDA folder : folder.diseaseType = filterType)
                ELSE subFolders
      bySearch == IF searchTerm # <<>>
                  THEN SelectSeq(byType,
                         LAMBDA folder : includes(toLowerCase(folder.disease),
                                                  toLowerCase(searchTerm)))
                  ELSE byType
  IN IF dateRange # "all" THEN applyDateFilter(bySearch, dateRange)
     ELSE bySearch

applySorting(folders, sortBy) == sortFolderList(sortBy, folders)

\* A mutant of filterOne: the filtered list also replaces the baseline.
filterOneDestructive(mainFolder, filterType, searchTerm, sortBy, dateRange) ==
  LET sortedSubFolders ==
        applySorting(filterSubFolders(mainFolder.originalSubFolders,
                                      filterType, searchTerm, dateRange),
                     sortBy)
  IN [mainFolder EXCEPT
        !.count = SumSeq([j \in 1..Len(sortedSubFolders) |->
                            sortedSubFolders[j].count]),
        !.subFolders = sortedSubFolders,
        !.originalSubFolders = sortedSubFolders]

\* The body of the loop of filterMainFolders.
filterOne(mainFolder, filterType, searchTerm, sortBy, dateRange) ==
  LET sortedSubFolders ==
        applySorting(filterSubFolders(mainFolder.originalSubFolders,
                                      filterType, searchTerm, dateRange),
                     sortBy)
  IN [mainFolder EXCEPT
        !.count = SumSeq([j \in 1..Len(sortedSubFolders) |->
                            sortedSubFolders[j].count]),
        !.subFolders = sortedSubFolders]

\* The mainFolders array after the call (it is updated in place; the empty
\* array is left as it is).
filterMainFolders(folders, filterType, searchTerm, sortBy, dateRange) ==
  [i \in 1..Len(folders) |->
     filterOne(folders[i], filterType, searchTerm, sortBy, dateRange)]

(***************************************************************************)
(* ButtonsService: the selection operations.                               *)
(***************************************************************************)
\* Set.prototype.add and Set.prototype.delete on an insertion-ordered set.
setAdd(sel, x) == IF x \in Range(sel) THEN sel ELSE Append(sel, x)

setDelete(sel, x) == SelectSeq(sel, LAMBDA y : y # x)

\* A mutant of toggleImageSelection: the id is added, never removed.
toggleImageSelectionAddOnly(imageId, currentSelection) ==
  setAdd(currentSelection, imageId)

toggleImageSelection(imageId, currentSelection) ==
  LET newSelection == currentSelection
      isAlreadySelected ==
        \E i \in 1..Len(newSelection) : newSelection[i] = imageId
  IN IF isAlreadySelected THEN setDelete(newSelection, imageId)
     ELSE setAdd(newSelection, imageId)

RECURSIVE addImages(_, _)
addImages(sel, images) ==
  IF images = <<>> THEN sel
  ELSE addImages(setAdd(sel, Head(images).id), Tail(images))

selectAllInFolder(folder, currentSelection) ==
  addImages(currentSelection, folder.images)

\* A mutant of isAllInFolderSelected: no early return for the empty folder.
RECURSIVE isAllInFolderSelectedNoGuard(_, _)
isAllInFolderSelectedNoGuard(folder, currentSelection) ==
  IF folder.images = <<>> THEN TRUE
  ELSE IF ~(\E j \in 1..Len(currentSelection) :
              currentSelection[j] = Head(folder.images).id)
  THEN FALSE
  ELSE isAllInFolderSelectedNoGuard(
         [folder EXCEPT !.images = Tail(@)], currentSelection)

\* The loop over folder.images from index i on.
RECURSIVE allSelectedFrom(_, _, _)
allSelectedFrom(folder, currentSelection, i) ==
  IF i > Len(folder.images) THEN TRUE
  ELSE IF ~(\E j \in 1..Len(currentSelection) :
              currentSelection[j] = folder.images[i].id)
  THEN FALSE
  ELSE allSelectedFrom(folder, currentSelection, i + 1)

isAllInFolderSelected(folder, currentSelection) ==
  IF Len(folder.images) = 0 THEN FALSE
  ELSE allSelectedFrom(folder, currentSelection, 1)

\* The images of a list of folders, folder by folder.
imagesOfFolders(folders) ==
  Flatten([j \in 1..Len(folders) |-> folders[j].images])

\* A mutant of selectAllImages: only the expanded main folders are visited.
selectAllImagesExpandedOnly(folders) ==
  addImages(<<>>,
    Flatten([i \in 1..Len(folders) |->
               IF folders[i].expanded
               THEN imagesOfFolders(folders[i].subFolders) ELSE <<>>]))

selectAllImages(folders) ==
  addImages(<<>>,
    Flatten([i \in 1..Len(folders) |->
               imagesOfFolders(folders[i].subFolders)]))

deselectAllImages == <<>>

\* VerifiedImagesComponent.deselectAllInFolder: the content of
\* this.selectedImages after Set.prototype.delete of every image id of the
\* folder, on the Set object itself.
RECURSIVE deselectAllInFolder(_, _)
deselectAllInFolder(folder, selection) ==
  IF folder.images = <<>> THEN selection
  ELSE deselectAllInFolder([folder EXCEPT !.images = Tail(@)],
                           setDelete(selection, Head(folder.images).id))

(***************************************************************************)
(* State of the page.                                                      *)
(***************************************************************************)
VARIABLES
  backend,         \* the records the backend stores, in response order
  inflight,        \* getClassifiedImages requests not yet answered
  started,         \* ngOnInit has run
  mainFolders,     \* this.mainFolders
  ingested,        \* allImages of the last rebuild
  totals,          \* totalAllCount, totalVerifiedCount, ...
  loading,         \* this.loading
  error,           \* this.error ("null" when null)
  filterType,      \* this.filterType
  searchTerm,      \* this.searchTerm
  sortBy,          \* this.sortBy
  dateRange,       \* this.dateRange
  selectedImages,  \* this.selectedImages
  lastOp,          \* the handler that ran last
  callFolder,      \* the folder argument of a direct ButtonsService call
  callResult,      \* the last direct call: its name, arguments and result
  selectionRef,    \* which Set object this.selectedImages refers to
  updatingSelected,\* this.updatingSelected
  tasks,           \* the bag of bulk actions waiting at an await
  alertMessage,    \* the text of the last alert()
  bulkCount,       \* bulk actions confirmed so far
  lastResult,      \* the outcome of the bulk action this step completed
  downloadingAll,  \* this.downloadingAll
  exports,         \* the bag of archive exports waiting at an await
  lastExport,      \* the outcome of the export that returned in this step
  exportCount,     \* exports that went past their confirmation so far
  requests         \* the bag of responses to loadAllImages under way

vars ==
  <<backend, inflight, started, mainFolders, ingested, totals, loading, error,
    filterType, searchTerm, sortBy, dateRange, selectedImages, lastOp,
    callFolder, callResult, selectionRef, updatingSelected, tasks,
    alertMessage, bulkCount, lastResult, downloadingAll, exports, lastExport,
    exportCount, requests>>

criteria == <<filterType, searchTerm, sortBy, dateRange>>

loadState == <<inflight, ingested, totals, loading, error>>

callState == <<callFolder, callResult>>

bulkState == <<updatingSelected, tasks, alertMessage, bulkCount>>

FilterTypes == {"all", "leaf", "fruit"}

SearchTerms == {<<>>, <<"L">>}

SortKeys == {"disease", "count", "date"}

DateRanges == {"all", "week", "month", "year"}

NoFolder == [disease |-> <<>>, count |-> 0, images |-> <<>>,
             diseaseType |-> "unknown", verificationStatus |-> "all"]

NoCall == [op |-> "none", id |-> 0, before |-> <<>>, value |-> FALSE]

\* What alert() showed last: the text, the numbers in it, and the step of
\* the handler that showed it.
NoAlert == [text |-> "none", count |-> 0, failed |-> 0, by |-> "none"]

\* The bulk action a step completes: what the service counted and
\* returned, the ids the backend changed, and whether the handler rebuilt.
NoResult == [kind |-> "none", success |-> FALSE, ids |-> <<>>,
             attempted |-> <<>>, successCount |-> 0, failCount |-> 0,
             applied |-> {}, message |-> NoAlert, rebuilt |-> FALSE]

\* The Set object of the selection after the last operation on it: whether
\* this.selectedImages holds an object built by that operation, and whether
\* the object it held before still has the content it had.
FirstSet == [fresh |-> TRUE, previousIntact |-> TRUE]

\* this.selectedImages = <a Set built by new Set()>: the object held before
\* is only read.
newSet == [fresh |-> TRUE, previousIntact |-> TRUE]

\* Set.prototype.delete on the object this.selectedImages holds.
sameSet(before, after) == [fresh |-> FALSE, previousIntact |-> after = before]

\* The fields that only the bulk actions write, as the constructor leaves
\* them.
InitBulkFields ==
  /\ updatingSelected = FALSE
  /\ tasks = EmptyBag
  /\ alertMessage = NoAlert
  /\ bulkCount = 0
  /\ lastResult = NoResult

\* The step completes no bulk action.
noResult == lastResult' = NoResult

\* An export that has not returned.
NoExport ==
  [kind |-> "none", exit |-> "none", flag |-> FALSE, asked |-> 0,
   selection |-> <<>>, names |-> <<>>, queue |-> <<>>, fetched |-> <<>>,
   received |-> <<>>, archive |-> {}]

\* The fields that only the exports and the overlapping loads write, as the
\* constructor leaves them.
InitExportFields ==
  /\ downloadingAll = FALSE
  /\ exports = EmptyBag
  /\ lastExport = NoExport
  /\ exportCount = 0
  /\ requests = EmptyBag

\* The step is no step of an export.
noExport ==
  /\ lastExport' = NoExport
  /\ UNCHANGED <<downloadingAll, exports, exportCount>>

\* The step neither sends nor receives a response of the overlapping loads.
noRequest == UNCHANGED requests

\* The field initialisers of VerifiedImagesComponent.
Init ==
  /\ backend \in Datasets
  /\ inflight = 0
  /\ started = FALSE
  /\ mainFolders = <<>>
  /\ ingested = <<>>
  /\ totals = [all |-> 0, verified |-> 0, unverified |-> 0, unknown |-> 0]
  /\ loading = TRUE
  /\ error = "null"
  /\ filterType = "all"
  /\ searchTerm = <<>>
  /\ sortBy = "disease"
  /\ dateRange = "all"
  /\ selectedImages = <<>>
  /\ lastOp = "init"
  /\ callFolder = NoFolder
  /\ callResult = NoCall
  /\ selectionRef = FirstSet
  /\ InitBulkFields
  /\ InitExportFields

(***************************************************************************)
(* loadAllImages: up to the await, and from the response on.               *)
(***************************************************************************)
loadAllImagesStart ==
  /\ inflight < MaxInflight
  /\ loading' = TRUE
  /\ error' = "null"
  /\ inflight' = inflight + 1

ngOnInit ==
  /\ ~started
  /\ started' = TRUE
  /\ loadAllImagesStart
  /\ lastOp' = "load"
  /\ UNCHANGED <<backend, mainFolders, ingested, totals, criteria,
                 selectedImages, callState,
                 selectionRef, bulkState>>
  /\ noResult
  /\ noExport
  /\ noRequest

onDateRangeChange(range) ==
  /\ started
  /\ range # dateRange
  /\ dateRange' = range
  /\ loadAllImagesStart
  /\ lastOp' = "load"
  /\ UNCHANGED <<backend, started, mainFolders, ingested, totals, filterType,
                 searchTerm, sortBy, selectedImages, callState,
                 selectionRef, bulkState>>
  /\ noResult
  /\ noExport
  /\ noRequest

\* loadAllImages from the response to its end.
rebuildFrom(allImages) ==
  /\ ingested' = allImages
  /\ totals' =
       [all |-> Len(allImages),
        verified |-> Len(imagesOfCategory(allImages, "verified")),
        unverified |-> Len(imagesOfCategory(allImages, "unverified")),
        unknown |-> Len(imagesOfCategory(allImages, "unknown"))]
  /\ mainFolders' = createMainFolders(allImages, dateRange, sortBy)
  /\ loading' = FALSE

\* The response holds the records the backend has when it answers.
rebuild(ok) == rebuildFrom(getClassifiedImages(backend, ok))

loadAllImagesResponse(ok) ==
  /\ inflight > 0
  /\ inflight' = inflight - 1
  /\ rebuild(ok)
  /\ lastOp' = "rebuild"
  /\ UNCHANGED <<backend, started, error, criteria, selectedImages, callState,
                 selectionRef, bulkState>>
  /\ noResult
  /\ noExport
  /\ noRequest

(***************************************************************************)
(* The filter and sort handlers.                                           *)
(***************************************************************************)
getFilteredMainFolders(ft, term, sort, range) ==
  mainFolders' = filterMainFolders(mainFolders, ft, term, sort, range)

onFilterTypeChange(ft) ==
  /\ started
  /\ ft # filterType
  /\ filterType' = ft
  /\ getFilteredMainFolders(ft, searchTerm, sortBy, dateRange)
  /\ lastOp' = "filter"
  /\ UNCHANGED <<backend, started, loadState, searchTerm, sortBy, dateRange,
                 selectedImages, callState,
                 selectionRef, bulkState>>
  /\ noResult
  /\ noExport
  /\ noRequest

onSearchTermChange(term) ==
  /\ started
  /\ term # searchTerm
  /\ searchTerm' = term
  /\ getFilteredMainFolders(filterType, term, sortBy, dateRange)
  /\ lastOp' = "filter"
  /\ UNCHANGED <<backend, started, loadState, filterType, sortBy, dateRange,
                 selectedImages, callState,
                 selectionRef, bulkState>>
  /\ noResult
  /\ noExport
  /\ noRequest

onSortChange(key) ==
  /\ started
  /\ key # sortBy
  /\ sortBy' = key
  /\ mainFolders' = sortFolders(mainFolders, key)
  /\ lastOp' = "sort"
  /\ UNCHANGED <<backend, started, loadState, filterType, searchTerm,
                 dateRange, selectedImages, callState,
                 selectionRef, bulkState>>
  /\ noResult
  /\ noExport
  /\ noRequest

clearAllFilters ==
  /\ started
  /\ filterType' = "all"
  /\ searchTerm' = <<>>
  /\ dateRange' = "all"
  /\ sortBy' = "disease"
  /\ getFilteredMainFolders("all", <<>>, "disease", "all")
  /\ lastOp' = "clear"
  /\ UNCHANGED <<backend, started, loadState, selectedImages, callState,
                 selectionRef, bulkState>>
  /\ noResult
  /\ noExport
  /\ noRequest

toggleMainFolder(i) ==
  /\ i \in 1..Len(mainFolders)
  /\ mainFolders' = [mainFolders EXCEPT ![i].expanded = ~@]
  /\ lastOp' = "expand"
  /\ UNCHANGED <<backend, started, loadState, criteria, selectedImages,
                 callState,
                 selectionRef, bulkState>>
  /\ noResult
  /\ noExport
  /\ noRequest

(***************************************************************************)
(* The selection handlers of the component.                                *)
(***************************************************************************)
shownFolders ==
  UNION {Range(mainFolders[i].subFolders) : i \in 1..Len(mainFolders)}

shownIds == {image.id : image \in UNION {Range(f.images) : f \in shownFolders}}

toggleImageSelectionClick(imageId) ==
  /\ imageId \in shownIds
  /\ selectedImages' = toggleImageSelection(imageId, selectedImages)
  /\ selectionRef' = newSet
  /\ lastOp' = "toggle"
  /\ UNCHANGED <<backend, started, loadState, mainFolders, criteria, callState,
                 bulkState>>
  /\ noResult
  /\ noExport
  /\ noRequest

selectAllInFolderClick(folder) ==
  /\ folder \in shownFolders
  /\ selectedImages' = selectAllInFolder(folder, selectedImages)
  /\ selectionRef' = newSet
  /\ lastOp' = "selectFolder"
  /\ UNCHANGED <<backend, started, loadState, mainFolders, criteria, callState,
                 bulkState>>
  /\ noResult
  /\ noExport
  /\ noRequest

selectAllImagesClick ==
  /\ mainFolders # <<>>
  /\ selectedImages' = selectAllImages(mainFolders)
  /\ selectionRef' = newSet
  /\ lastOp' = "selectAll"
  /\ UNCHANGED <<backend, started, loadState, mainFolders, criteria, callState,
                 bulkState>>
  /\ noResult
  /\ noExport
  /\ noRequest

deselectAllImagesClick ==
  /\ selectedImages # <<>>
  /\ selectedImages' = deselectAllImages
  /\ selectionRef' = newSet
  /\ lastOp' = "deselectAll"
  /\ UNCHANGED <<backend, started, loadState, mainFolders, criteria, callState,
                 bulkState>>
  /\ noResult
  /\ noExport
  /\ noRequest

\* The object in this.selectedImages stays the same one and loses the ids.
deselectAllInFolderClick(folder) ==
  /\ folder \in shownFolders
  /\ selectedImages' = deselectAllInFolder(folder, selectedImages)
  /\ selectionRef' =
       sameSet(selectedImages, deselectAllInFolder(folder, selectedImages))
  /\ lastOp' = "deselectFolder"
  /\ UNCHANGED <<backend, started, loadState, mainFolders, criteria, callState,
                 bulkState>>
  /\ noResult
  /\ noExport
  /\ noRequest

(***************************************************************************)
(* The page with its hierarchy, filter and sort handlers.                  *)
(***************************************************************************)
Next ==
  \/ ngOnInit
  \/ \E range \in DateRanges : onDateRangeChange(range)
  \/ \E ok \in BOOLEAN : loadAllImagesResponse(ok)
  \/ \E ft \in FilterTypes : onFilterTypeChange(ft)
  \/ \E term \in SearchTerms : onSearchTermChange(term)
  \/ \E key \in SortKeys : onSortChange(key)
  \/ clearAllFilters

Spec == Init /\ [][Next]_vars

(***************************************************************************)
(* The page with its global selection handlers, over the hierarchy as the  *)
(* type filter and the expansion of main folders leave it.                 *)
(***************************************************************************)
NextSelect ==
  \/ ngOnInit
  \/ \E ok \in BOOLEAN : loadAllImagesResponse(ok)
  \/ \E ft \in FilterTypes : onFilterTypeChange(ft)
  \/ \E i \in 1..Len(MainTypes) : toggleMainFolder(i)
  \/ selectAllImagesClick
  \/ deselectAllImagesClick

SpecSelect == Init /\ [][NextSelect]_vars

(***************************************************************************)
(* ButtonsService called directly, on selections and folders drawn from    *)
(* bounded sets.                                                           *)
(***************************************************************************)
ImageIds == 1..NumImages

\* The duplicate-free sequences of image ids.
Selections ==
  UNION {{s \in [1..n -> ImageIds] : \A i, j \in 1..n : i # j => s[i] # s[j]} :
           n \in 0..NumImages}

\* Folders of at most MaxFolderLen images, the empty folder among them.
CallFolders ==
  UNION {{[NoFolder EXCEPT !.images = [i \in 1..n |-> [id |-> ids[i]]],
                           !.count = n] : ids \in [1..n -> ImageIds]} :
           n \in 0..MaxFolderLen}

pageState ==
  <<backend, inflight, started, mainFolders, ingested, totals, loading, error,
    filterType, searchTerm, sortBy, dateRange>>

InitButtons ==
  /\ backend = <<>>
  /\ inflight = 0
  /\ started = FALSE
  /\ mainFolders = <<>>
  /\ ingested = <<>>
  /\ totals = [all |-> 0, verified |-> 0, unverified |-> 0, unknown |-> 0]
  /\ loading = TRUE
  /\ error = "null"
  /\ filterType = "all"
  /\ searchTerm = <<>>
  /\ sortBy = "disease"
  /\ dateRange = "all"
  /\ selectedImages \in Selections
  /\ lastOp = "init"
  /\ callFolder \in CallFolders
  /\ callResult = NoCall
  /\ selectionRef = FirstSet
  /\ InitBulkFields
  /\ InitExportFields

toggleImageSelectionCall(imageId) ==
  /\ selectedImages' = toggleImageSelection(imageId, selectedImages)
  /\ callResult' = [op |-> "toggle", id |-> imageId,
                    before |-> selectedImages, value |-> FALSE]
  /\ selectionRef' = newSet
  /\ lastOp' = "toggle"
  /\ UNCHANGED <<pageState, callFolder, bulkState>>
  /\ noResult
  /\ noExport
  /\ noRequest

isAllInFolderSelectedCall ==
  /\ callResult' = [op |-> "isAll", id |-> 0, before |-> selectedImages,
                    value |-> isAllInFolderSelected(callFolder, selectedImages)]
  /\ lastOp' = "isAll"
  /\ UNCHANGED <<pageState, callFolder, selectedImages, selectionRef,
                 bulkState>>
  /\ noResult
  /\ noExport
  /\ noRequest

selectAllInFolderCall ==
  /\ selectedImages' = selectAllInFolder(callFolder, selectedImages)
  /\ callResult' = [op |-> "selectFolder", id |-> 0,
                    before |-> selectedImages, value |-> FALSE]
  /\ selectionRef' = newSet
  /\ lastOp' = "selectFolder"
  /\ UNCHANGED <<pageState, callFolder, bulkState>>
  /\ noResult
  /\ noExport
  /\ noRequest

\* The component's deselectAllInFolder on this.selectedImages.
deselectAllInFolderCall ==
  /\ selectedImages' = deselectAllInFolder(callFolder, selectedImages)
  /\ selectionRef' =
       sameSet(selectedImages, deselectAllInFolder(callFolder, selectedImages))
  /\ callResult' = [op |-> "deselectFolder", id |-> 0,
                    before |-> selectedImages, value |-> FALSE]
  /\ lastOp' = "deselectFolder"
  /\ UNCHANGED <<pageState, callFolder, bulkState>>
  /\ noResult
  /\ noExport
  /\ noRequest

\* selectAllImages on one main folder that holds the folder of the call.
selectAllImagesCall ==
  /\ selectedImages' = selectAllImages(<<[subFolders |-> <<callFolder>>]>>)
  /\ selectionRef' = newSet
  /\ callResult' = [op |-> "selectAll", id |-> 0,
                    before |-> selectedImages, value |-> FALSE]
  /\ lastOp' = "selectAllCall"
  /\ UNCHANGED <<pageState, callFolder, bulkState>>
  /\ noResult
  /\ noExport
  /\ noRequest

deselectAllImagesCall ==
  /\ selectedImages' = deselectAllImages
  /\ selectionRef' = newSet
  /\ callResult' = [op |-> "deselectAll", id |-> 0,
                    before |-> selectedImages, value |-> FALSE]
  /\ lastOp' = "deselectAllCall"
  /\ UNCHANGED <<pageState, callFolder, bulkState>>
  /\ noResult
  /\ noExport
  /\ noRequest

NextButtons ==
  \/ \E imageId \in ImageIds : toggleImageSelectionCall(imageId)
  \/ isAllInFolderSelectedCall
  \/ selectAllInFolderCall
  \/ deselectAllInFolderCall
  \/ selectAllImagesCall
  \/ deselectAllImagesCall

SpecButtons == InitButtons /\ [][NextButtons]_vars

(***************************************************************************)
(* The classification helpers of the component called on one record, as    *)
(* the backend may send it.                                                *)
(***************************************************************************)
\* confidence_score values, in hundredths: 0, 0.01, 0.5, 0.87, 0.92, 1,
\* 1.01, 38, 87 and 100.
ScoreInputs == {0, 1, 50, 87, 92, 100, 101, 3800, 8700, 10000}

InferInputs ==
  {[id |-> 1, predicted_class |-> label, confidence_score |-> score,
    disease_type |-> dtype, model_used |-> model, is_verified |-> verified,
    uploaded_at |-> Now] :
     label \in {Anthracnose, Rot}, score \in ScoreInputs,
     dtype \in {"none", "unknown", "leaf", "fruit"},
     model \in {"none", "leaf", "fruit"}, verified \in BOOLEAN}

InitInfer ==
  /\ backend \in {<<image>> : image \in InferInputs}
  /\ inflight = 0
  /\ started = FALSE
  /\ mainFolders = <<>>
  /\ ingested = <<>>
  /\ totals = [all |-> 0, verified |-> 0, unverified |-> 0, unknown |-> 0]
  /\ loading = TRUE
  /\ error = "null"
  /\ filterType = "all"
  /\ searchTerm = <<>>
  /\ sortBy = "disease"
  /\ dateRange = "all"
  /\ selectedImages = <<>>
  /\ lastOp = "init"
  /\ callFolder = NoFolder
  /\ callResult = NoCall
  /\ selectionRef = FirstSet
  /\ InitBulkFields
  /\ InitExportFields

\* The record as getClassifiedImages hands it to the component.
receivedImage == getClassifiedImages(backend, TRUE)[1]

getDiseaseTypeCall ==
  /\ callResult' = [op |-> "getDiseaseType", id |-> 0, before |-> <<>>,
                    value |-> getDiseaseType(receivedImage)]
  /\ lastOp' = "getDiseaseType"
  /\ UNCHANGED <<pageState, callFolder, selectedImages, selectionRef,
                 bulkState>>
  /\ noResult
  /\ noExport
  /\ noRequest

\* getConfidenceScore on the record, and on the record with the returned
\* value as its score.
getConfidenceScoreCall ==
  /\ LET once == getConfidenceScore(receivedImage)
         twice == getConfidenceScore(
                    [receivedImage EXCEPT !.confidence_score = once])
     IN callResult' = [op |-> "getConfidenceScore", id |-> 0,
                       before |-> <<>>,
                       value |-> [once |-> once, twice |-> twice]]
  /\ lastOp' = "getConfidenceScore"
  /\ UNCHANGED <<pageState, callFolder, selectedImages, selectionRef,
                 bulkState>>
  /\ noResult
  /\ noExport
  /\ noRequest

\* The category of the record and the folder groupImagesByDisease builds
\* for it.
groupImagesByDiseaseCall ==
  /\ callFolder' = groupImagesByDisease(<<receivedImage>>,
                                        categoryOf(receivedImage), "all",
                                        "disease")[1]
  /\ callResult' = [op |-> "groupImagesByDisease", id |-> 0, before |-> <<>>,
                    value |-> FALSE]
  /\ lastOp' = "groupImagesByDisease"
  /\ UNCHANGED <<pageState, selectedImages, selectionRef, bulkState>>
  /\ noResult
  /\ noExport
  /\ noRequest

NextInfer ==
  \/ getDiseaseTypeCall
  \/ getConfidenceScoreCall
  \/ groupImagesByDiseaseCall

SpecInfer == InitInfer /\ [][NextInfer]_vars

(***************************************************************************)
(* ButtonsService: the bulk executor. A message is its text with the       *)
(* numbers it interpolates.                                                *)
(***************************************************************************)
BulkKinds == {"verify", "unverify", "delete"}

getSelectedIds(currentSelection) == currentSelection

\* What verifySelectedImages and unverifySelectedImages return once the
\* bulkUpdateImages request has been answered.
bulkUpdateResult(kind, selectedIds, ok) ==
  IF ok
  THEN [success |-> TRUE,
        message |-> [text |-> IF kind = "verify" THEN "Successfully verified"
                              ELSE "Successfully unverified",
                     count |-> Len(selectedIds), failed |-> 0]]
  ELSE [success |-> FALSE,
        message |-> [text |-> IF kind = "verify" THEN "Failed to verify images"
                              ELSE "Failed to unverify images",
                     count |-> 0, failed |-> 0]]

\* A mutant of deleteResult: a loop with a failed delete reports failure.
deleteResultAllOrNothing(successCount, failCount) ==
  IF successCount > 0 /\ failCount = 0
  THEN [success |-> TRUE,
        message |-> [text |-> "Successfully deleted", count |-> successCount,
                     failed |-> 0]]
  ELSE [success |-> FALSE,
        message |-> [text |-> "Failed to delete all", count |-> 0,
                     failed |-> failCount]]

\* What deleteSelectedImages returns after its loop.
deleteResult(successCount, failCount) ==
  IF successCount > 0 /\ failCount = 0
  THEN [success |-> TRUE,
        message |-> [text |-> "Successfully deleted", count |-> successCount,
                     failed |-> 0]]
  ELSE IF successCount > 0 /\ failCount > 0
  THEN [success |-> TRUE,
        message |-> [text |-> "Deleted, but failed to delete",
                     count |-> successCount, failed |-> failCount]]
  ELSE [success |-> FALSE,
        message |-> [text |-> "Failed to delete all", count |-> 0,
                     failed |-> failCount]]

(***************************************************************************)
(* The backend behind bulkUpdateImages and deleteImage.                    *)
(***************************************************************************)
storedIds(stored) == {stored[i].id : i \in 1..Len(stored)}

\* POST classified-images/bulk-update/ with is_verified = flag, applied to
\* the ids the backend managed to update.
bulkUpdate(stored, applied, flag) ==
  [i \in 1..Len(stored) |->
     IF stored[i].id \in applied THEN [stored[i] EXCEPT !.is_verified = flag]
     ELSE stored[i]]

\* DELETE classified-images/<id>/
deleteStored(stored, imageId) ==
  SelectSeq(stored, LAMBDA image : image.id # imageId)

(***************************************************************************)
(* The bulk handlers of the component. alert() and confirm() block, so a   *)
(* handler runs from the click to its first await in one step, and from    *)
(* each answer to the next await or to its end in one step.                *)
(***************************************************************************)
alert(message, by) ==
  alertMessage' = [text |-> message.text, count |-> message.count,
                   failed |-> message.failed, by |-> by]

\* A handler reaches an await, and a handler leaves one.
pending(bag, task) == bag (+) SetToBag({task})

resumed(bag, task) == bag (-) SetToBag({task})

selectMessage(kind) ==
  [text |-> CASE kind = "verify" -> "Please select images to verify"
              [] kind = "unverify" -> "Please select images to unverify"
              [] OTHER -> "Please select images to delete",
   count |-> 0, failed |-> 0]

\* verifySelectedImages, unverifySelectedImages, deleteSelectedImages up to
\* the first await: the size check, the confirmation, the flag, and the
\* first request of the service.
bulkClick(kind, confirmed) ==
  /\ IF selectedImages = <<>>
     THEN /\ alert(selectMessage(kind), "bulkRejected")
          /\ lastOp' = "bulkRejected"
          /\ UNCHANGED <<updatingSelected, tasks, bulkCount>>
     ELSE IF ~confirmed
     THEN UNCHANGED <<updatingSelected, tasks, bulkCount, alertMessage,
                      lastOp>>
     ELSE /\ bulkCount < MaxBulk
          /\ bulkCount' = bulkCount + 1
          /\ updatingSelected' = TRUE
          /\ LET selectedIds == getSelectedIds(selectedImages)
             IN tasks' = pending(tasks,
                  [kind |-> kind, ids |-> selectedIds,
                   pc |-> IF kind = "delete" THEN "delete" ELSE "update",
                   attempted |-> IF kind = "delete" THEN <<selectedIds[1]>>
                                 ELSE <<>>,
                   successCount |-> 0, failCount |-> 0, applied |-> {},
                   message |-> NoAlert])
          /\ lastOp' = "bulkStart"
          /\ UNCHANGED alertMessage
  /\ noResult
  /\ noExport
  /\ noRequest
  /\ UNCHANGED <<backend, started, loadState, mainFolders, criteria,
                 selectedImages, selectionRef, callState>>

verifySelectedImagesClick(confirmed) ==
  /\ started
  /\ bulkClick("verify", confirmed)

unverifySelectedImagesClick(confirmed) ==
  /\ started
  /\ bulkClick("unverify", confirmed)

\* Both confirmations have to be accepted.
deleteSelectedImagesClick(confirmed, doubleConfirm) ==
  /\ started
  /\ bulkClick("delete", confirmed /\ doubleConfirm)

\* A mutant of bulkResult: the selection is emptied after a failure as
\* well.
bulkResultClearing(waiting, task, result) ==
  /\ alert(result.message,
           IF result.success THEN "bulkSuccess" ELSE "bulkFailure")
  /\ IF result.success
     THEN /\ selectedImages' = deselectAllImages
          /\ selectionRef' = newSet
          /\ loading' = TRUE
          /\ error' = "null"
          /\ tasks' = pending(resumed(tasks, waiting),
                              [task EXCEPT !.pc = "reload"])
          /\ lastOp' = "bulkSuccess"
          /\ noResult
          /\ UNCHANGED updatingSelected
     ELSE /\ updatingSelected' = FALSE
          /\ tasks' = resumed(tasks, waiting)
          /\ lastResult' =
               [kind |-> task.kind, success |-> FALSE, ids |-> task.ids,
                attempted |-> task.attempted,
                successCount |-> task.successCount,
                failCount |-> task.failCount, applied |-> task.applied,
                message |-> task.message, rebuilt |-> FALSE]
          /\ lastOp' = "bulkFailure"
          /\ selectedImages' = deselectAllImages
          /\ selectionRef' = newSet
          /\ UNCHANGED <<loading, error>>
  /\ UNCHANGED <<started, inflight, ingested, totals, mainFolders, criteria,
                 callState, bulkCount>>
  /\ noExport
  /\ noRequest

\* The handler from the result of the service on: alert(result.message),
\* then either the new empty selection and loadAllImages up to its await,
\* or the finally block.
bulkResult(waiting, task, result) ==
  /\ alert(result.message,
           IF result.success THEN "bulkSuccess" ELSE "bulkFailure")
  /\ IF result.success
     THEN /\ selectedImages' = deselectAllImages
          /\ selectionRef' = newSet
          /\ loading' = TRUE
          /\ error' = "null"
          /\ tasks' = pending(resumed(tasks, waiting),
                              [task EXCEPT !.pc = "reload"])
          /\ lastOp' = "bulkSuccess"
          /\ noResult
          /\ UNCHANGED updatingSelected
     ELSE /\ updatingSelected' = FALSE
          /\ tasks' = resumed(tasks, waiting)
          /\ lastResult' =
               [kind |-> task.kind, success |-> FALSE, ids |-> task.ids,
                attempted |-> task.attempted,
                successCount |-> task.successCount,
                failCount |-> task.failCount, applied |-> task.applied,
                message |-> task.message, rebuilt |-> FALSE]
          /\ lastOp' = "bulkFailure"
          /\ UNCHANGED <<selectedImages, selectionRef, loading, error>>
  /\ UNCHANGED <<started, inflight, ingested, totals, mainFolders, criteria,
                 callState, bulkCount>>
  /\ noExport
  /\ noRequest

\* The answer to the bulkUpdateImages request of a verify or unverify: the
\* request succeeds when every id was updated, and fails with some id left
\* as it was.
bulkUpdateImagesResponse(task, ok, applied) ==
  /\ task \in BagToSet(tasks)
  /\ task.pc = "update"
  /\ applied \subseteq (Range(task.ids) \cap storedIds(backend))
  /\ ok = (applied = Range(task.ids))
  /\ backend' = bulkUpdate(backend, applied, task.kind = "verify")
  /\ LET result == bulkUpdateResult(task.kind, task.ids, ok)
     IN bulkResult(task, [task EXCEPT !.applied = applied,
                                      !.message = result.message], result)

\* A mutant of loopContinues: the loop is left at the first failed request.
loopContinuesWhileOk(i, ok, count) == ok /\ i < count

\* The for loop of deleteSelectedImages after the answer to the request for
\* the i-th of count ids: the catch block only counts, so the loop goes on
\* while ids are left.
loopContinues(i, ok, count) == i < count

\* The answer to the deleteImage request of the loop: the counters, then
\* the request for the next id or the result after the last one.
deleteImageResponse(task, ok) ==
  /\ task \in BagToSet(tasks)
  /\ task.pc = "delete"
  /\ LET i == Len(task.attempted)
         imageId == task.ids[i]
         counted == [task EXCEPT
                       !.successCount = IF ok THEN @ + 1 ELSE @,
                       !.failCount = IF ok THEN @ ELSE @ + 1,
                       !.applied = IF ok THEN @ \cup {imageId} ELSE @]
     IN /\ ok => imageId \in storedIds(backend)
        /\ backend' = IF ok THEN deleteStored(backend, imageId) ELSE backend
        /\ IF loopContinues(i, ok, Len(task.ids))
           THEN /\ tasks' = pending(resumed(tasks, task),
                                    [counted EXCEPT
                                       !.attempted =
                                         Append(@, task.ids[i + 1])])
                /\ lastOp' = "deleteStep"
                /\ noResult
                /\ noExport
                /\ noRequest
                /\ UNCHANGED <<started, loadState, mainFolders, criteria,
                               selectedImages, selectionRef, callState,
                               updatingSelected, alertMessage, bulkCount>>
           ELSE LET result == deleteResult(counted.successCount,
                                           counted.failCount)
                IN bulkResult(task,
                              [counted EXCEPT !.message = result.message],
                              result)

\* The answer to the getClassifiedImages request of the loadAllImages the
\* handler awaits, and the finally block after it.
bulkReloadResponse(task, ok) ==
  /\ task \in BagToSet(tasks)
  /\ task.pc = "reload"
  /\ rebuild(ok)
  /\ updatingSelected' = FALSE
  /\ tasks' = resumed(tasks, task)
  /\ lastResult' =
       [kind |-> task.kind, success |-> TRUE, ids |-> task.ids,
        attempted |-> task.attempted, successCount |-> task.successCount,
        failCount |-> task.failCount, applied |-> task.applied,
        message |-> task.message, rebuilt |-> TRUE]
  /\ lastOp' = "rebuild"
  /\ UNCHANGED <<backend, started, inflight, error, criteria, selectedImages,
                 selectionRef, callState, alertMessage, bulkCount>>
  /\ noExport
  /\ noRequest

\* downloadSelectedImages with nothing selected: the early return.
downloadSelectedImagesEmpty ==
  /\ started
  /\ selectedImages = <<>>
  /\ lastOp' = "exportRejected"
  /\ UNCHANGED <<backend, started, loadState, mainFolders, criteria,
                 selectedImages, selectionRef, callState, bulkState>>
  /\ noResult
  /\ noExport
  /\ noRequest

(***************************************************************************)
(* The page with its global selection handlers and its bulk actions, over  *)
(* the records the catalog starts with.                                    *)
(***************************************************************************)
BulkDatasets ==
  {[i \in 1..BulkImages |-> WithId(Catalog[i], i)]}

InitBulk ==
  /\ backend \in BulkDatasets
  /\ inflight = 0
  /\ started = FALSE
  /\ mainFolders = <<>>
  /\ ingested = <<>>
  /\ totals = [all |-> 0, verified |-> 0, unverified |-> 0, unknown |-> 0]
  /\ loading = TRUE
  /\ error = "null"
  /\ filterType = "all"
  /\ searchTerm = <<>>
  /\ sortBy = "disease"
  /\ dateRange = "all"
  /\ selectedImages = <<>>
  /\ lastOp = "init"
  /\ callFolder = NoFolder
  /\ callResult = NoCall
  /\ selectionRef = FirstSet
  /\ InitBulkFields
  /\ InitExportFields

NextBulk ==
  \/ ngOnInit
  \/ \E ok \in BOOLEAN : loadAllImagesResponse(ok)
  \/ selectAllImagesClick
  \/ deselectAllImagesClick
  \/ \E confirmed \in BOOLEAN : verifySelectedImagesClick(confirmed)
  \/ \E confirmed \in BOOLEAN : unverifySelectedImagesClick(confirmed)
  \/ \E confirmed, doubleConfirm \in BOOLEAN :
       deleteSelectedImagesClick(confirmed, doubleConfirm)
  \/ \E task \in BagToSet(tasks), ok \in BOOLEAN,
        applied \in SUBSET (1..BulkImages) :
       bulkUpdateImagesResponse(task, ok, applied)
  \/ \E task \in BagToSet(tasks), ok \in BOOLEAN :
       deleteImageResponse(task, ok)
  \/ \E task \in BagToSet(tasks), ok \in BOOLEAN :
       bulkReloadResponse(task, ok)
  \/ downloadSelectedImagesEmpty

SpecBulk == InitBulk /\ [][NextBulk]_vars

(***************************************************************************)
(* The bulk actions alone: every record selected, then verified,           *)
(* unverified or deleted.                                                  *)
(***************************************************************************)
NextBulkCore ==
  \/ ngOnInit
  \/ \E ok \in BOOLEAN : loadAllImagesResponse(ok)
  \/ selectAllImagesClick
  \/ \E confirmed \in BOOLEAN : verifySelectedImagesClick(confirmed)
  \/ \E confirmed \in BOOLEAN : unverifySelectedImagesClick(confirmed)
  \/ \E confirmed, doubleConfirm \in BOOLEAN :
       deleteSelectedImagesClick(confirmed, doubleConfirm)
  \/ \E task \in BagToSet(tasks), ok \in BOOLEAN,
        applied \in SUBSET (1..BulkImages) :
       bulkUpdateImagesResponse(task, ok, applied)
  \/ \E task \in BagToSet(tasks), ok \in BOOLEAN :
       deleteImageResponse(task, ok)
  \/ \E task \in BagToSet(tasks), ok \in BOOLEAN :
       bulkReloadResponse(task, ok)

SpecBulkCore == InitBulk /\ [][NextBulkCore]_vars

(***************************************************************************)
(* deleteSelectedImages on every non-empty selection of the loaded page,   *)
(* with every deleteImage request answered.                                *)
(***************************************************************************)
\* The selections of the page: its ids in every order the clicks can put
\* them in.
BulkSelections ==
  UNION {{s \in [1..n -> 1..BulkImages] :
            \A i, j \in 1..n : i # j => s[i] # s[j]} : n \in 0..BulkImages}

InitDelete ==
  /\ backend \in BulkDatasets
  /\ inflight = 0
  /\ started = TRUE
  /\ ingested = getClassifiedImages(backend, TRUE)
  /\ totals =
       [all |-> Len(ingested),
        verified |-> Len(imagesOfCategory(ingested, "verified")),
        unverified |-> Len(imagesOfCategory(ingested, "unverified")),
        unknown |-> Len(imagesOfCategory(ingested, "unknown"))]
  /\ mainFolders = createMainFolders(ingested, "all", "disease")
  /\ loading = FALSE
  /\ error = "null"
  /\ filterType = "all"
  /\ searchTerm = <<>>
  /\ sortBy = "disease"
  /\ dateRange = "all"
  /\ selectedImages \in BulkSelections \ {<<>>}
  /\ lastOp = "load"
  /\ callFolder = NoFolder
  /\ callResult = NoCall
  /\ selectionRef = FirstSet
  /\ InitBulkFields
  /\ InitExportFields

deleteImageAnswered ==
  \E task \in BagToSet(tasks), ok \in BOOLEAN : deleteImageResponse(task, ok)

reloadAnswered ==
  \E task \in BagToSet(tasks), ok \in BOOLEAN : bulkReloadResponse(task, ok)

NextDelete ==
  \/ \E confirmed, doubleConfirm \in BOOLEAN :
       deleteSelectedImagesClick(confirmed, doubleConfirm)
  \/ deleteImageAnswered
  \/ reloadAnswered

\* Every HTTP request ends with a response or an error.
SpecDelete ==
  /\ InitDelete
  /\ [][NextDelete]_vars
  /\ WF_vars(deleteImageAnswered)
  /\ WF_vars(reloadAnswered)

(***************************************************************************)
(* Archive export: downloadFolderImages, downloadAllVerifiedImages and     *)
(* downloadSelectedImages. confirm() blocks, so a handler runs from the    *)
(* click to its first await, or to its return, in one step.                *)
(***************************************************************************)
\* String.prototype.lastIndexOf for one character: the 0-based index of its
\* last occurrence, or -1.
lastIndexOf(s, c) ==
  LET hits == {i \in 1..Len(s) : s[i] = c}
  IN IF hits = {} THEN -1
     ELSE (CHOOSE i \in hits : \A j \in hits : j <= i) - 1

\* String.prototype.substring: each index is clamped to 0..length, and the
\* two are swapped when the first is the greater.
substring(s, indexStart, indexEnd) ==
  LET clamp(n) == IF n < 0 THEN 0 ELSE IF n > Len(s) THEN Len(s) ELSE n
      a == clamp(indexStart)
      b == clamp(indexEnd)
  IN IF a <= b THEN SubSeq(s, a + 1, b) ELSE SubSeq(s, b + 1, a)

\* The name an image is stored under: original_filename, or
\* `image_${image.id}.jpg`, with _unverified put where the last dot is when
\* the image is not verified.
archiveFilename(image) ==
  LET DigitText(n) == <<"0", "1", "2", "3", "4", "5", "6", "7", "8", "9">>[n + 1]
      UnverifiedSuffix ==
        <<"_", "u", "n", "v", "e", "r", "i", "f", "i", "e", "d">>
      filename ==
        IF image.original_filename # <<>> THEN image.original_filename
        ELSE <<"i", "m", "a", "g", "e", "_">> \o <<DigitText(image.id)>>
               \o <<".", "j", "p", "g">>
      dot == lastIndexOf(filename, ".")
      fileExtension == substring(filename, dot, Len(filename))
      baseName == substring(filename, 0, dot)
  IN IF ~image.is_verified
     THEN baseName \o UnverifiedSuffix \o fileExtension
     ELSE filename

\* `${disease} (${diseaseType})`
archiveFolderName(disease, diseaseType) ==
  disease \o <<" ", "(">> \o TypeText(diseaseType) \o <<")">>

\* The folder of the archive an image goes to in the export of all images
\* and of the selection.
folderNameOf(image) ==
  archiveFolderName(diseaseOf(image), getDiseaseType(image))

\* The values of uniqueImagesMap: one image per id, in the order the ids
\* were met first.
RECURSIVE uniqueImages(_)
uniqueImages(images) ==
  IF images = <<>> THEN <<>>
  ELSE LET init == uniqueImages(SubSeq(images, 1, Len(images) - 1))
           last == images[Len(images)]
       IN IF \E k \in 1..Len(init) : init[k].id = last.id THEN init
          ELSE Append(init, last)

\* The images of the subFolders of a list of main folders.
imagesOfMainFolders(folders) ==
  uniqueImages(Flatten([i \in 1..Len(folders) |->
                          imagesOfFolders(folders[i].subFolders)]))

\* The keys of the diseaseMap of an export, in insertion order.
RECURSIVE exportKeys(_)
exportKeys(images) ==
  IF images = <<>> THEN <<>>
  ELSE LET init == exportKeys(SubSeq(images, 1, Len(images) - 1))
           k == folderNameOf(images[Len(images)])
       IN IF k \in Range(init) THEN init ELSE Append(init, k)

\* The images in the order the loops of the export fetch them, each with
\* the folder of the archive it goes to.
exportQueue(images) ==
  LET names == exportKeys(images)
  IN Flatten([k \in 1..Len(names) |->
                LET group == SelectSeq(images,
                               LAMBDA img : folderNameOf(img) = names[k])
                IN [i \in 1..Len(group) |->
                      [image |-> group[i], into |-> names[k]]]])

\* JSZip folder.file(name, data): a file of that name in that folder is
\* replaced.
zipFile(archive, into, filename, id) ==
  {e \in archive : ~(e.folder = into /\ e.filename = filename)}
    \cup {[folder |-> into, filename |-> filename, id |-> id]}

\* A mutant of confirmNeeded: a single unverified image is exported without
\* the question.
confirmNeededAboveOne(unverifiedImages) == Len(unverifiedImages) > 1

\* unverifiedImages.length > 0
confirmNeeded(unverifiedImages) == Len(unverifiedImages) > 0

\* A mutant of flagAfter: the flag is reset only on the paths that save or
\* decline.
flagAfterNoFinally(exit) == exit = "zipError"

\* The in-progress flag of an export after the finally block.
flagAfter(exit) == FALSE

\* A handler from the list of its images on: the confirmation, and either
\* the return of the declined export or everything up to the first await.
exportBegins(kind, names, queue, confirmDownload) ==
  LET unverifiedImages == SelectSeq(queue, LAMBDA e : ~e.image.is_verified)
      asks == confirmNeeded(unverifiedImages)
      export == [NoExport EXCEPT
                   !.kind = kind,
                   !.flag = kind # "selected",
                   !.asked = IF asks THEN Len(unverifiedImages) ELSE 0,
                   !.selection = selectedImages,
                   !.names = names,
                   !.queue = queue]
  IN IF asks /\ ~confirmDownload
     THEN /\ lastExport' = [export EXCEPT !.exit = "declined",
                                          !.flag = flagAfter("declined")]
          /\ downloadingAll' = IF kind = "all" THEN flagAfter("declined")
                               ELSE downloadingAll
          /\ UNCHANGED <<exports, exportCount>>
     ELSE /\ exports' = exports (+) SetToBag({
               [export EXCEPT
                  !.exit = IF queue = <<>> THEN "zip" ELSE "fetch",
                  !.fetched = IF queue = <<>> THEN <<>>
                              ELSE <<queue[1].image.id>>]})
          /\ exportCount' = exportCount + 1
          /\ downloadingAll' = IF kind = "all" THEN TRUE ELSE downloadingAll
          /\ lastExport' = NoExport

downloadFolderImagesClick(folder, confirmDownload) ==
  /\ folder \in shownFolders
  /\ exportCount < MaxExports
  /\ LET folderName == archiveFolderName(folder.disease, folder.diseaseType)
     IN exportBegins("folder", <<folderName>>,
                     [i \in 1..Len(folder.images) |->
                        [image |-> folder.images[i], into |-> folderName]],
                     confirmDownload)
  /\ lastOp' = "export"
  /\ UNCHANGED <<backend, started, loadState, mainFolders, criteria,
                 selectedImages, callState, selectionRef, bulkState>>
  /\ noResult
  /\ noRequest

\* getFilteredMainFolders() runs the filter pass on this.mainFolders first.
downloadAllVerifiedImagesClick(confirmDownload) ==
  /\ started
  /\ exportCount < MaxExports
  /\ getFilteredMainFolders(filterType, searchTerm, sortBy, dateRange)
  /\ LET allImages == imagesOfMainFolders(mainFolders')
     IN exportBegins("all", exportKeys(allImages), exportQueue(allImages),
                     confirmDownload)
  /\ lastOp' = "export"
  /\ UNCHANGED <<backend, started, loadState, criteria, selectedImages,
                 callState, selectionRef, bulkState>>
  /\ noResult
  /\ noRequest

downloadSelectedImagesClick(confirmDownload) ==
  /\ started
  /\ selectedImages # <<>>
  /\ exportCount < MaxExports
  /\ LET selectedImageData ==
           SelectSeq(imagesOfMainFolders(mainFolders),
                     LAMBDA image : image.id \in Range(selectedImages))
     IN exportBegins("selected", exportKeys(selectedImageData),
                     exportQueue(selectedImageData), confirmDownload)
  /\ lastOp' = "export"
  /\ UNCHANGED <<backend, started, loadState, mainFolders, criteria,
                 selectedImages, callState, selectionRef, bulkState>>
  /\ noResult
  /\ noRequest

\* The answer to the fetch of an image: it is stored (ok), skipped with
\* continue (notOk) or skipped by the catch block (error); then the next
\* fetch, or generateAsync after the last image.
fetchResponse(export, outcome) ==
  /\ export \in BagToSet(exports)
  /\ export.exit = "fetch"
  /\ LET i == Len(export.fetched)
         entry == export.queue[i]
         stored ==
           IF outcome = "ok"
           THEN [export EXCEPT
                   !.received = Append(@, entry.image.id),
                   !.archive = zipFile(@, entry.into,
                                       archiveFilename(entry.image),
                                       entry.image.id)]
           ELSE export
     IN exports' = (exports (-) SetToBag({export})) (+) SetToBag({
          IF i < Len(export.queue)
          THEN [stored EXCEPT
                  !.fetched = Append(@, export.queue[i + 1].image.id)]
          ELSE [stored EXCEPT !.exit = "zip"]})
  /\ lastOp' = "fetch"
  /\ lastExport' = NoExport
  /\ UNCHANGED <<backend, started, loadState, mainFolders, criteria,
                 selectedImages, callState, selectionRef, bulkState,
                 downloadingAll, exportCount>>
  /\ noResult
  /\ noRequest

\* The answer of zip.generateAsync: saveAs, or the catch block, and then
\* the finally block.
generateAsyncResponse(export, ok) ==
  /\ export \in BagToSet(exports)
  /\ export.exit = "zip"
  /\ exports' = exports (-) SetToBag({export})
  /\ LET exit == IF ok THEN "saved" ELSE "zipError"
         flag == IF export.kind = "selected" THEN FALSE ELSE flagAfter(exit)
     IN /\ lastExport' = [export EXCEPT !.exit = exit, !.flag = flag]
        /\ downloadingAll' = IF export.kind = "all" THEN flag
                             ELSE downloadingAll
  /\ error' = IF ok THEN error ELSE "download"
  /\ lastOp' = "exported"
  /\ UNCHANGED <<backend, started, inflight, ingested, totals, loading,
                 mainFolders, criteria, selectedImages, callState,
                 selectionRef, bulkState, exportCount>>
  /\ noResult
  /\ noRequest

\* The records of the sessions with exports: two unverified images of one
\* disease and type with the same file name, a verified image of that
\* disease and type, and an unverified image of another disease whose file
\* name has no extension.
ExportDataset ==
  << [id |-> 1, predicted_class |-> Rot, confidence_score |-> 92,
      disease_type |-> "fruit", model_used |-> "none", is_verified |-> FALSE,
      uploaded_at |-> Now - 1, original_filename |-> <<"a", ".", "j">>],
     [id |-> 2, predicted_class |-> Rot, confidence_score |-> 92,
      disease_type |-> "fruit", model_used |-> "none", is_verified |-> TRUE,
      uploaded_at |-> Now - 2, original_filename |-> <<"c", ".", "j">>],
     [id |-> 3, predicted_class |-> Rot, confidence_score |-> 92,
      disease_type |-> "fruit", model_used |-> "none", is_verified |-> FALSE,
      uploaded_at |-> Now - 3, original_filename |-> <<"a", ".", "j">>],
     [id |-> 4, predicted_class |-> Wilt, confidence_score |-> 8700,
      disease_type |-> "none", model_used |-> "leaf", is_verified |-> FALSE,
      uploaded_at |-> Now - 4, original_filename |-> <<"b">>] >>

\* The page after its first load.
InitExport ==
  /\ backend = ExportDataset
  /\ inflight = 0
  /\ started = TRUE
  /\ ingested = getClassifiedImages(backend, TRUE)
  /\ totals =
       [all |-> Len(ingested),
        verified |-> Len(imagesOfCategory(ingested, "verified")),
        unverified |-> Len(imagesOfCategory(ingested, "unverified")),
        unknown |-> Len(imagesOfCategory(ingested, "unknown"))]
  /\ mainFolders = createMainFolders(ingested, "all", "disease")
  /\ loading = FALSE
  /\ error = "null"
  /\ filterType = "all"
  /\ searchTerm = <<>>
  /\ sortBy = "disease"
  /\ dateRange = "all"
  /\ selectedImages = <<>>
  /\ lastOp = "rebuild"
  /\ callFolder = NoFolder
  /\ callResult = NoCall
  /\ selectionRef = FirstSet
  /\ InitBulkFields
  /\ InitExportFields

\* A fetch resolves with response.ok, resolves without it, or rejects.
fetchAnswered ==
  \E export \in BagToSet(exports), outcome \in {"ok", "notOk", "error"} :
    fetchResponse(export, outcome)

generateAsyncAnswered ==
  \E export \in BagToSet(exports), ok \in BOOLEAN :
    generateAsyncResponse(export, ok)

NextExport ==
  \/ \E ft \in FilterTypes : onFilterTypeChange(ft)
  \/ selectAllImagesClick
  \/ \E folder \in shownFolders, confirmDownload \in BOOLEAN :
       downloadFolderImagesClick(folder, confirmDownload)
  \/ \E confirmDownload \in BOOLEAN :
       downloadAllVerifiedImagesClick(confirmDownload)
  \/ \E confirmDownload \in BOOLEAN :
       downloadSelectedImagesClick(confirmDownload)
  \/ fetchAnswered
  \/ generateAsyncAnswered

\* Every fetch resolves or rejects, and so does generateAsync.
SpecExport ==
  /\ InitExport
  /\ [][NextExport]_vars
  /\ WF_vars(fetchAnswered)
  /\ WF_vars(generateAsyncAnswered)

\* The exports alone, with the filters left as they were loaded.
NextExportRun ==
  \/ selectAllImagesClick
  \/ \E folder \in shownFolders, confirmDownload \in BOOLEAN :
       downloadFolderImagesClick(folder, confirmDownload)
  \/ \E confirmDownload \in BOOLEAN :
       downloadAllVerifiedImagesClick(confirmDownload)
  \/ \E confirmDownload \in BOOLEAN :
       downloadSelectedImagesClick(confirmDownload)
  \/ fetchAnswered
  \/ generateAsyncAnswered

SpecExportRun ==
  /\ InitExport
  /\ [][NextExportRun]_vars
  /\ WF_vars(fetchAnswered)
  /\ WF_vars(generateAsyncAnswered)

(***************************************************************************)
(* Overlapping loads. The backend answers a request when it arrives, and   *)
(* the response reaches the page at any later time, so responses overtake  *)
(* one another. A bulk update that fails changes no record here.           *)
(***************************************************************************)
\* onDateRangeChange: loadAllImages up to its await; the backend reads its
\* records for the response.
onDateRangeChangeSent(range) ==
  /\ started
  /\ range # dateRange
  /\ BagCardinality(requests) < MaxInflight
  /\ dateRange' = range
  /\ loading' = TRUE
  /\ error' = "null"
  /\ requests' = requests (+) SetToBag({getClassifiedImages(backend, TRUE)})
  /\ lastOp' = "load"
  /\ UNCHANGED <<backend, started, inflight, mainFolders, ingested, totals,
                 filterType, searchTerm, sortBy, selectedImages, callState,
                 selectionRef, bulkState>>
  /\ noResult
  /\ noExport

\* loadAllImages from the response on, for a response that was under way.
loadAllImagesDelivered(images) ==
  /\ images \in BagToSet(requests)
  /\ requests' = requests (-) SetToBag({images})
  /\ rebuildFrom(images)
  /\ lastOp' = "rebuild"
  /\ UNCHANGED <<backend, started, inflight, error, criteria, selectedImages,
                 callState, selectionRef, bulkState>>
  /\ noResult
  /\ noExport

NextOverlap ==
  \/ ngOnInit
  \/ \E ok \in BOOLEAN : loadAllImagesResponse(ok)
  \/ \E range \in DateRanges : onDateRangeChangeSent(range)
  \/ \E images \in BagToSet(requests) : loadAllImagesDelivered(images)
  \/ selectAllImagesClick
  \/ \E confirmed \in BOOLEAN : verifySelectedImagesClick(confirmed)
  \/ \E task \in BagToSet(tasks), ok \in BOOLEAN :
       bulkUpdateImagesResponse(task, ok,
                                IF ok THEN Range(task.ids) ELSE {})
  \/ \E task \in BagToSet(tasks), ok \in BOOLEAN :
       bulkReloadResponse(task, ok)

SpecOverlap == InitBulk /\ [][NextOverlap]_vars

(***************************************************************************)
(* The page with single images toggled while a verify is under way.        *)
(***************************************************************************)
NextToggle ==
  \/ ngOnInit
  \/ \E ok \in BOOLEAN : loadAllImagesResponse(ok)
  \/ \E imageId \in 1..BulkImages : toggleImageSelectionClick(imageId)
  \/ \E confirmed \in BOOLEAN : verifySelectedImagesClick(confirmed)
  \/ \E task \in BagToSet(tasks), ok \in BOOLEAN,
        applied \in SUBSET (1..BulkImages) :
       bulkUpdateImagesResponse(task, ok, applied)
  \/ \E task \in BagToSet(tasks), ok \in BOOLEAN :
       bulkReloadResponse(task, ok)

SpecToggle == InitBulk /\ [][NextToggle]_vars

(***************************************************************************)
(* The page with its filter and sort handlers, its selection handlers and  *)
(* the verify action, which moves records to another category.             *)
(***************************************************************************)
NextKeep ==
  \/ ngOnInit
  \/ \E ok \in BOOLEAN : loadAllImagesResponse(ok)
  \/ \E ft \in FilterTypes : onFilterTypeChange(ft)
  \/ \E key \in SortKeys : onSortChange(key)
  \/ selectAllImagesClick
  \/ \E confirmed \in BOOLEAN : verifySelectedImagesClick(confirmed)
  \/ \E task \in BagToSet(tasks), ok \in BOOLEAN,
        applied \in SUBSET (1..BulkImages) :
       bulkUpdateImagesResponse(task, ok, applied)
  \/ \E task \in BagToSet(tasks), ok \in BOOLEAN :
       bulkReloadResponse(task, ok)

SpecKeep == InitBulk /\ [][NextKeep]_vars

(***************************************************************************)
(* Properties.                                                             *)
(***************************************************************************)
MainIndex == 1..Len(mainFolders)

folderCounts(folders) == [j \in 1..Len(folders) |-> folders[j].count]

\* How many times the image with this id occurs in a list of folders.
occurrences(folders, id) ==
  Len(SelectSeq(imagesOfFolders(folders), LAMBDA image : image.id = id))

afterFilterPass == lastOp \in {"filter", "clear"}

afterRebuild == lastOp = "rebuild"

inRange(image) == dateRange = "all" \/ image.uploaded_at >= cutoffDate(dateRange)

\* C1: after a rebuild or a filter pass, the count of every main folder is
\* the sum of the counts of its current subfolders.
C1_MainCountIsSum ==
  (afterRebuild \/ afterFilterPass) =>
    \A i \in MainIndex :
      mainFolders[i].count = SumSeq(folderCounts(mainFolders[i].subFolders))

\* C2: after a rebuild or a filter pass, every disease folder of subFolders
\* and of originalSubFolders has count equal to the number of its images.
C2_FolderCountIsLength ==
  (afterRebuild \/ afterFilterPass) =>
    \A i \in MainIndex :
      \A f \in Range(mainFolders[i].subFolders)
                 \cup Range(mainFolders[i].originalSubFolders) :
        f.count = Len(f.images)

C2_Witness ==
  /\ afterFilterPass
  /\ \E i \in MainIndex :
       \E f \in Range(mainFolders[i].subFolders) : Len(f.images) >= 2

\* The category the rule of C3 gives a record.
ruleCategory(r) ==
  IF getConfidenceScore(r) < 50 * 100 THEN "unknown"
  ELSE IF r.is_verified THEN "verified"
  ELSE "unverified"

categoryIndex(cat) == CHOOSE i \in 1..Len(MainTypes) : MainTypes[i] = cat

\* C3: a rebuild puts every ingested record in exactly one of verified,
\* unverified and unknown: unknown below 50 percent whatever the verified
\* flag, else by the flag. The category sizes count every record once, and
\* a record the date range admits is in a folder of its category only.
C3_Partition ==
  afterRebuild =>
    /\ \A cat \in {"verified", "unverified", "unknown"} :
         /\ mainFolders[categoryIndex(cat)].count =
              Cardinality({k \in 1..Len(ingested) :
                             ruleCategory(ingested[k]) = cat})
         /\ totals[cat] = mainFolders[categoryIndex(cat)].count
    /\ totals.verified + totals.unverified + totals.unknown = Len(ingested)
    /\ \A k \in 1..Len(ingested) :
         \A cat \in {"verified", "unverified", "unknown"} :
           occurrences(mainFolders[categoryIndex(cat)].originalSubFolders,
                       ingested[k].id)
             = IF cat = ruleCategory(ingested[k]) /\ inRange(ingested[k])
               THEN 1 ELSE 0

C3_Witness ==
  /\ afterRebuild
  /\ \E k \in 1..Len(ingested) :
       /\ ingested[k].is_verified
       /\ getConfidenceScore(ingested[k]) < 50 * 100
       /\ occurrences(mainFolders[categoryIndex("unknown")].originalSubFolders,
                      ingested[k].id) = 1

\* C4: after a rebuild the originalSubFolders of the 'all' main folder
\* hold every ingested record exactly once, whatever the criteria.
C4_BaselineComplete ==
  afterRebuild =>
    \A k \in 1..Len(ingested) :
      occurrences(mainFolders[categoryIndex("all")].originalSubFolders,
                  ingested[k].id) = 1

\* The same folders, in any order.
sameFolders(a, b) == Len(a) = Len(b) /\ Range(a) = Range(b)

\* C5: clearAllFilters leaves in every main folder's subFolders the folders
\* of its originalSubFolders with the same images, and no filter or sort
\* pass changes originalSubFolders.
C5_RoundTrip ==
  [][/\ lastOp' = "clear" =>
          \A i \in 1..Len(mainFolders') :
            sameFolders(mainFolders'[i].subFolders,
                        mainFolders'[i].originalSubFolders)
     /\ lastOp' \in {"filter", "clear", "sort"} =>
          /\ Len(mainFolders') = Len(mainFolders)
          /\ \A i \in MainIndex :
               mainFolders'[i].originalSubFolders
                 = mainFolders[i].originalSubFolders]_vars

C5_Witness ==
  /\ lastOp = "clear"
  /\ \E i \in MainIndex :
       /\ Len(mainFolders[i].subFolders) >= 2
       /\ mainFolders[i].subFolders # mainFolders[i].originalSubFolders

\* The folders the date filter is given: the baseline after the type and
\* search filters.
dateFilterInput(i) ==
  filterSubFolders(mainFolders[i].originalSubFolders, filterType, searchTerm,
                   "all")

\* The images the view shows for a folder of the baseline.
shownImagesOf(i, f) ==
  UNION {Range(g.images) :
           g \in {h \in Range(mainFolders[i].subFolders) :
                    h.disease = f.disease /\ h.diseaseType = f.diseaseType}}

\* C6: after a filter pass with date range week, month or year, the view
\* keeps of every folder given to the date filter exactly the images
\* uploaded at or after the cutoff.
C6_DateFilterKeepsRange ==
  (afterFilterPass /\ dateRange # "all") =>
    \A i \in MainIndex :
      \A f \in Range(dateFilterInput(i)) :
        shownImagesOf(i, f)
          = {image \in Range(f.images) :
               image.uploaded_at >= cutoffDate(dateRange)}

\* C7: after a filter pass with a date range no folder without images is
\* left in subFolders, and the main folder's count is the count of the
\* folders given to the date filter less the count of each folder removed.
C7_EmptyFoldersDropped ==
  (afterFilterPass /\ dateRange # "all") =>
    \A i \in MainIndex :
      LET input == dateFilterInput(i)
          removed == SelectSeq(input, LAMBDA f : shownImagesOf(i, f) = {})
      IN /\ \A g \in Range(mainFolders[i].subFolders) :
              Len(g.images) > 0 /\ g.count > 0
         /\ mainFolders[i].count
              = SumSeq(folderCounts(input)) - SumSeq(folderCounts(removed))

C7_Witness ==
  /\ afterFilterPass
  /\ dateRange = "week"
  /\ \E i \in MainIndex :
       \E f \in Range(dateFilterInput(i)) :
         /\ \A image \in Range(f.images) :
              image.uploaded_at < cutoffDate("week")
         /\ shownImagesOf(i, f) = {}
         /\ mainFolders[i].count = SumSeq(folderCounts(dateFilterInput(i)))
                                     - f.count

\* C8: toggling the id that was just toggled gives back the selection from
\* before the first toggle, as a set.
C8_ToggleSelfInverse ==
  callResult.op = "toggle" =>
    Range(toggleImageSelection(callResult.id, selectedImages))
      = Range(callResult.before)

C8_Witness ==
  /\ callResult.op = "toggle"
  /\ callResult.id \in Range(callResult.before)
  /\ Len(callResult.before) >= 2

\* C9: isAllInFolderSelected is false for a folder without images, and for
\* any other folder true exactly when every image id of the folder is
\* selected.
C9_AllInFolderSelected ==
  callResult.op = "isAll" =>
    callResult.value =
      (/\ callFolder.images # <<>>
       /\ \A image \in Range(callFolder.images) :
            image.id \in Range(selectedImages))

C9_Witness ==
  /\ callResult.op = "isAll"
  /\ Len(callFolder.images) >= 2
  /\ callResult.value = TRUE

SelectionCalls ==
  {"toggle", "selectFolder", "deselectFolder", "selectAllCall",
   "deselectAllCall"}

\* C11: after every selection operation this.selectedImages holds a Set
\* object built by the operation, and the object that was the selection
\* before still has the content it had.
C11_SelectionNeverMutated ==
  lastOp \in SelectionCalls =>
    selectionRef.fresh /\ selectionRef.previousIntact

SelectionHandlers ==
  {"toggle", "selectFolder", "deselectFolder", "selectAll", "deselectAll"}

C13_ModelTypeFirst ==
  (callResult.op = "getDiseaseType" /\ receivedImage.model_used # "none") =>
    callResult.value = receivedImage.model_used

\* The label contains a leaf keyword of the type inference.
leafLabel(image) ==
  \E keyword \in leafDiseases :
    includes(toLowerCase(image.predicted_class), keyword)

\* C14: a record without a model type, without a known disease type and
\* with a leaf keyword in its label is put into a folder of type leaf that
\* is named after the label with " (Leaf)", in the category its confidence
\* and verified flag give (unverified for 0.92 and not verified).
C14_LeafKeywordFolder ==
  (/\ callResult.op = "groupImagesByDisease"
   /\ receivedImage.model_used = "none"
   /\ receivedImage.disease_type = "unknown"
   /\ leafLabel(receivedImage)) =>
    /\ callFolder.diseaseType = "leaf"
    /\ callFolder.disease =
         receivedImage.predicted_class
           \o <<" ", "(", "L", "e", "a", "f", ")">>
    /\ (receivedImage.confidence_score = 92 /\ ~receivedImage.is_verified) =>
         callFolder.verificationStatus = "unverified"

\* C15 as stated: s * 100 for 0 < s <= 1, s for s > 1, and a second
\* application returns the value of the first.
C15_NormalizeIdempotent ==
  callResult.op = "getConfidenceScore" =>
    LET s == receivedImage.confidence_score
    IN /\ (0 < s /\ s <= 100) => callResult.value.once = s * 100
       /\ s > 100 => callResult.value.once = s
       /\ s > 0 => callResult.value.twice = callResult.value.once

\* C15: getConfidenceScore returns s * 100 for 0 < s <= 1 and s for s > 1,
\* and a second application returns the value of the first when that value
\* is greater than 1.
C15_NormalizeOnce ==
  callResult.op = "getConfidenceScore" =>
    LET s == receivedImage.confidence_score
    IN /\ (0 < s /\ s <= 100) => callResult.value.once = s * 100
       /\ s > 100 => callResult.value.once = s
       /\ callResult.value.once > 100 =>
            callResult.value.twice = callResult.value.once

\* 0.87 has been normalized to 87, and again to 87.
C15_Witness ==
  /\ callResult.op = "getConfidenceScore"
  /\ receivedImage.confidence_score = 87
  /\ callResult.value.once = 8700
  /\ callResult.value.twice = 8700

\* The delete requests of a task, sent or answered, are those for the
\* first ids of the selection, in its order, and every answer is counted.
deleteInOrder(task) ==
  /\ Len(task.attempted) <= Len(task.ids)
  /\ task.attempted = SubSeq(task.ids, 1, Len(task.attempted))
  /\ task.successCount + task.failCount =
       Len(task.attempted) - (IF task.pc = "delete" THEN 1 ELSE 0)

\* C17: deleteSelectedImages sends one delete request per selected id, in
\* the order of the ids and whatever the answers are: every id is attempted
\* exactly once, successCount + failCount is the number of ids, and every
\* call comes to its end.
C17_DeleteAttemptsEveryId ==
  /\ [](/\ \A task \in BagToSet(tasks) :
             task.kind = "delete" => deleteInOrder(task)
        /\ lastResult.kind = "delete" =>
             /\ lastResult.attempted = lastResult.ids
             /\ lastResult.successCount + lastResult.failCount =
                  Len(lastResult.ids)
             /\ lastResult.successCount = Cardinality(lastResult.applied))
  /\ (tasks # EmptyBag) ~> (tasks = EmptyBag)

\* A delete has ended whose first request failed and whose last request
\* succeeded.
C17_Witness ==
  /\ lastResult.kind = "delete"
  /\ Len(lastResult.ids) >= 2
  /\ lastResult.ids[1] \notin lastResult.applied
  /\ lastResult.ids[Len(lastResult.ids)] \in lastResult.applied
  /\ lastResult.attempted = lastResult.ids

\* The ids a completed or pending bulk action changed on the backend are all
\* of its ids (verify, unverify) or at least one of them (delete).
changedRecords(r) ==
  \/ r.kind \in {"verify", "unverify"} /\ r.applied = Range(r.ids)
  \/ r.kind = "delete" /\ r.applied # {}

\* A bulk action ran its finally block in this step.
completes == BagCardinality(tasks') < BagCardinality(tasks)

\* C16: a verify or unverify that updated some of its ids and failed on the
\* others reports the number updated and the number failed, and the rebuild
\* that follows shows the updated ids with the new flag.
C16_PartialUpdateAccounted ==
  (/\ lastResult.kind \in {"verify", "unverify"}
   /\ lastResult.applied # {}
   /\ lastResult.applied # Range(lastResult.ids)) =>
    /\ lastResult.message.count = Cardinality(lastResult.applied)
    /\ lastResult.message.failed =
         Len(lastResult.ids) - Cardinality(lastResult.applied)
    /\ lastResult.rebuilt
    /\ \A image \in Range(ingested) :
         image.id \in lastResult.applied =>
           image.is_verified = (lastResult.kind = "verify")

\* C18: at most one instance of each bulk action is outstanding.
C18_OneInstancePerAction ==
  \A kind \in BulkKinds :
    BagCardinality([task \in {t \in BagToSet(tasks) : t.kind = kind} |->
                      CopiesIn(task, tasks)]) <= 1

\* C19: a bulk action or a selected-images export invoked with an empty
\* selection sends no request, leaves the selection, the hierarchy and the
\* backend as they are, and shows a message.
C19_EmptySelectionRejected ==
  [][lastOp' \in {"bulkRejected", "exportRejected"} =>
       /\ tasks' = tasks
       /\ inflight' = inflight
       /\ backend' = backend
       /\ selectedImages' = selectedImages
       /\ mainFolders' = mainFolders
       /\ alertMessage'.by = lastOp']_vars

\* Success is reported exactly for the actions that changed records, and
\* only those wait for the reload.
reportedAsChanged ==
  /\ (lastResult.kind # "none") =>
       (/\ lastResult.success = changedRecords(lastResult)
        /\ lastResult.rebuilt = lastResult.success)
  /\ \A task \in BagToSet(tasks) :
       (task.pc = "reload") => changedRecords(task)

\* The step that handles a successful result empties the selection and
\* does not complete; the step that completes is the rebuild after success,
\* and touches neither the selection nor the hierarchy after failure.
completesAsReported ==
  /\ (lastOp' = "bulkSuccess") => (selectedImages' = <<>> /\ ~completes)
  /\ (completes /\ lastResult'.success) =>
       (/\ lastOp' = "rebuild"
        /\ \E ok \in BOOLEAN : ingested' = getClassifiedImages(backend', ok)
        /\ mainFolders' = createMainFolders(ingested', dateRange, sortBy))
  /\ (completes /\ ~lastResult'.success) =>
       (/\ selectedImages' = selectedImages
        /\ mainFolders' = mainFolders
        /\ ingested' = ingested
        /\ loading' = loading)

\* C20: a bulk action that changed records on the backend (every id of a
\* verify or unverify, at least one id of a delete) reports success, empties
\* the selection while it is still running, and completes in the step that
\* rebuilds the hierarchy from a fresh response; an action that reports
\* failure completes without a rebuild and leaves the selection as it was.
C20_RebuildAfterChange ==
  /\ [](reportedAsChanged)
  /\ [][completesAsReported]_vars

\* A delete that removed one record and failed on another has completed
\* with the rebuild.
C20_Witness ==
  /\ lastOp = "rebuild"
  /\ lastResult.kind = "delete"
  /\ lastResult.successCount > 0
  /\ lastResult.failCount > 0
  /\ lastResult.rebuilt

\* The exports under way and the export that has just returned.
allExports ==
  BagToSet(exports) \cup (IF lastExport.kind # "none" THEN {lastExport} ELSE {})

\* The ids of the images of an export, in the order of its fetches.
queueIds(e) == [i \in 1..Len(e.queue) |-> e.queue[i].image.id]

\* C21: an export goes through all of its images whatever the answers to
\* its fetches are, and the archive it hands to generateAsync and saves has
\* an entry for each image whose fetch succeeded and for no other.
C21_FailedFetchSkipped ==
  \A e \in allExports :
    /\ e.fetched = SubSeq(queueIds(e), 1, Len(e.fetched))
    /\ (e.exit \in {"zip", "saved", "zipError"}) => (e.fetched = queueIds(e))
    /\ (e.exit \in {"zip", "saved"}) =>
         /\ {entry.id : entry \in e.archive} = Range(e.received)
         /\ Cardinality(e.archive) = Len(e.received)

\* The original file name with _unverified before its extension: before the
\* last dot, or at the end of a name without a dot.
suffixedName(filename) ==
  LET dots == {i \in 1..Len(filename) : filename[i] = "."}
      ext == IF dots = {} THEN Len(filename) + 1
             ELSE CHOOSE i \in dots : \A j \in dots : j <= i
  IN SubSeq(filename, 1, ext - 1)
       \o <<"_", "u", "n", "v", "e", "r", "i", "f", "i", "e", "d">>
       \o SubSeq(filename, ext, Len(filename))

\* C22: the entry of an unverified image has the original file name with
\* _unverified before the extension, and the entry of a verified image has
\* the original file name.
C22_UnverifiedSuffix ==
  \A e \in allExports :
    \A entry \in e.archive :
      \A q \in Range(e.queue) :
        (q.image.id = entry.id) =>
          entry.filename =
            IF q.image.is_verified THEN q.image.original_filename
            ELSE suffixedName(q.image.original_filename)

\* The unverified images among those of an export.
unverifiedOf(e) == {q.image.id : q \in {r \in Range(e.queue) : ~r.image.is_verified}}

\* C23: an export with an unverified image among its images has asked for
\* confirmation with their number before it fetches, and a declined export
\* has fetched nothing, saved nothing and left its in-progress flag false.
C23_ConfirmBeforeFetch ==
  /\ \A e \in allExports :
       (unverifiedOf(e) # {}) => (e.asked = Cardinality(unverifiedOf(e)))
  /\ (lastExport.exit = "declined") =>
       /\ lastExport.asked > 0
       /\ lastExport.fetched = <<>>
       /\ lastExport.archive = {}
       /\ ~lastExport.flag
       /\ (lastExport.kind = "all") => ~downloadingAll

\* The export of all images, three of them unverified, has been declined.
C23_Witness ==
  /\ lastExport.exit = "declined"
  /\ lastExport.kind = "all"
  /\ lastExport.asked = 3

\* C24: an export has one folder for each (disease, type) of its images,
\* named `${disease} (${type})` after the label and the type of the
\* records, whichever export it is.
C24_FolderPerGroup ==
  \A e \in allExports :
    /\ Range(e.names) = {folderNameOf(q.image) : q \in Range(e.queue)}
    /\ Cardinality(Range(e.names)) = Len(e.names)
    /\ \A q \in Range(e.queue) : q.into = folderNameOf(q.image)

\* C26: the images of an export of the selection are those of the ids
\* selected when it started, the ids getSelectedIds would give.
C26_SelectionExportedWhole ==
  \A e \in allExports :
    (e.kind = "selected") =>
      Range(queueIds(e)) = Range(getSelectedIds(e.selection))

\* C28: an export that has returned has left its in-progress flag false,
\* and every export under way returns.
C28_ExportTerminates ==
  /\ [](/\ (lastExport.kind # "none") =>
             /\ lastExport.exit \in {"saved", "declined", "zipError"}
             /\ ~lastExport.flag
             /\ (lastExport.kind = "all") => ~downloadingAll
        /\ \A e \in BagToSet(exports) : e.exit \in {"fetch", "zip"})
  /\ (exports # EmptyBag) ~> (exports = EmptyBag)

\* An export of a folder has returned from the catch block after a fetch
\* that failed and a fetch that succeeded.
C28_Witness ==
  /\ lastExport.exit = "zipError"
  /\ lastExport.kind = "folder"
  /\ lastExport.received # <<>>
  /\ Len(lastExport.received) < Len(lastExport.fetched)
  /\ error # "null"

\* C25: a loadAllImages whose request failed ends with the error set and
\* loading false, leaves the hierarchy that was displayed, and sends no
\* request of its own.
C25_FailedLoadSurfaced ==
  [][(/\ lastOp' = "rebuild"
      /\ getClassifiedImages(backend, FALSE) # getClassifiedImages(backend, TRUE)
      /\ ingested' = getClassifiedImages(backend, FALSE)) =>
       (/\ error' # "null"
        /\ loading' = FALSE
        /\ mainFolders' = mainFolders
        /\ inflight' < inflight)]_vars

\* C27: updatingSelected is true exactly while a bulk action, its reload
\* included, is under way.
C27_FlagWhileInFlight ==
  updatingSelected = (tasks # EmptyBag)

\* C30: the ids of a bulk action under way are those selected when it was
\* confirmed, whatever is toggled meanwhile, and the step that handles its
\* success keeps selected every id that was selected during the flight
\* (an id selected then that belongs to no action under way).
C30_SelectionDuringFlight ==
  [][/\ \A task \in BagToSet(tasks) :
          \/ task \in BagToSet(tasks')
          \/ \E next \in BagToSet(tasks') : next.ids = task.ids
          \/ BagCardinality(tasks') < BagCardinality(tasks)
     /\ (lastOp' = "bulkSuccess") =>
          \A id \in Range(selectedImages) :
            (\A task \in BagToSet(tasks) : id \notin Range(task.ids)) =>
              id \in Range(selectedImages')]_vars

\* C29: once every loadAllImages has completed, the hierarchy is built from
\* the response to the request sent last, which holds the records as the
\* backend has them since the last bulk action.
C29_LastRequestWins ==
  (/\ lastOp = "rebuild"
   /\ inflight = 0
   /\ requests = EmptyBag
   /\ tasks = EmptyBag
   /\ ingested # getClassifiedImages(backend, FALSE)) =>
    ingested = getClassifiedImages(backend, TRUE)

====
